---- MODULE Spec2Model ----
(***************************************************************************)
(* CompassClient (vscode-extension/src/client.ts): the JSON-RPC client     *)
(* that drives the Compass CLI in headless mode over the worker's          *)
(* stdin/stdout.  One client instance, its worker process, the readline    *)
(* reader on the worker's stdout, the pending-request table and the        *)
(* per-request timers.                                                     *)
(***************************************************************************)
EXTENDS Integers, Sequences, FiniteSets, TLC

\* ---------------------------------------------------------------- bounds
MaxCalls == 2        \* sendRequest invocations explored
MaxQueue == 1        \* lines buffered between the worker and the reader
MaxLog   == 1        \* log notifications the worker writes
TickMs   == 5000     \* granularity of the passage of time, in ms

MaxChunk == 2        \* bytes in a chunk of keystrokes or of process output
MaxChildren == 2     \* commands run in the Compass terminal
MaxCommands == 3     \* invocations of compass.start and compass.executeStep
MaxSeq == 2          \* BroadcastEvents a Session emits

\* ------------------------------------------------------ program constants
REQUEST_TIMEOUT_MS == 5000   \* setTimeout(..., 5000) in sendRequest
GRACE_MS == 500              \* setTimeout(..., 500) in start
FIRST_RPC_ID == 1            \* private rpcId = 1

\* --------------------------------------------------------------- values
Undefined == "undefined"     \* JavaScript undefined / an absent JSON field
NoId == 0                    \* an absent id field (falsy, like id 0)
Null == "null"               \* JavaScript null
Unarmed == -1                \* no timer
ExitCodes == {"1"}           \* a code a worker may exit with (as printed)

NoProcess == 0               \* activeProcess === undefined
Nothing == << >>             \* no string
NoClient == 0                \* client === undefined

\* What a promise is rejected with: an Error with its message, or a string.
NoFailure == [kind |-> "none", text |-> ""]
Error(message) == [kind |-> "Error", text |-> message]
ProcessNotStarted == [kind |-> "string", text |-> "Process not started"]

\* No command run has ended.
NoTask == [cmd |-> "none", failure |-> NoFailure, shown |-> << >>]

EmptyMap == [x \in {} |-> 0]
MapSet(m, k, v) == [x \in DOMAIN m \cup {k} |-> IF x = k THEN v ELSE m[x]]
MapDelete(m, k) == [x \in DOMAIN m \ {k} |-> m[x]]

\* ids the worker may put in a line: every id the client can allocate; the
\* worker may use one before the client has allocated it, or never does
LineIds == 1 .. MaxCalls

Outputs == {"", "out"}       \* params.output of a log notification

\* A parsed line.  kind "blank": only white space; "garbage": JSON.parse
\* throws; "null": the JSON value null (any property access throws);
\* "obj": a JSON object with the fields below (absent fields Undefined).
Obj(id, method, output, error, result) ==
    [kind |-> "obj", id |-> id, method |-> method, output |-> output,
     error |-> error, result |-> result]

BlankLine   == [Obj(NoId, Undefined, Undefined, Undefined, Undefined) EXCEPT !.kind = "blank"]
GarbageLine == [Obj(NoId, Undefined, Undefined, Undefined, Undefined) EXCEPT !.kind = "garbage"]
NullLine    == [Obj(NoId, Undefined, Undefined, Undefined, Undefined) EXCEPT !.kind = "null"]
\* no line at all
NoLine      == [Obj(NoId, Undefined, Undefined, Undefined, Undefined) EXCEPT !.kind = "none"]

\* {"id":i,"result":"ok"}
ResultLine(i) == Obj(i, Undefined, Undefined, Undefined, "ok")
\* {"id":i,"error":{"message":"boom"}}
ErrorLine(i)  == Obj(i, Undefined, Undefined, "boom", Undefined)
\* {"id":i,"method":"log","params":{"output":"out"}}: neither a response
\* (no result, no error) nor a notification (it has an id)
IdLogLine(i)  == Obj(i, "log", "out", Undefined, Undefined)
\* {"method":"log","params":{"output":o}}
LogLine(o)    == Obj(NoId, "log", o, Undefined, Undefined)

ResponseLines == {ResultLine(i) : i \in LineIds} \cup {ErrorLine(i) : i \in LineIds}
                     \cup {IdLogLine(i) : i \in LineIds}
LogLines      == {LogLine(o) : o \in Outputs}
Lines         == {BlankLine, GarbageLine, NullLine} \cup ResponseLines \cup LogLines

\* JavaScript truthiness of a number-or-absent field and of a
\* string-or-absent field
TruthyNum(n) == n # NoId
TruthyStr(v) == v # Undefined /\ v # ""

VARIABLES
    process,          \* this.process: "undefined" or "set"
    worker,           \* the OS process: "none", "running", "exited"
    rpcId,            \* this.rpcId
    pendingRequests,  \* this.pendingRequests: id -> the call whose callback it holds
    timers,           \* armed setTimeout handles: call -> ms left
    calls,            \* the promises sendRequest returned, in invocation order
    stdin,            \* ids of the requests written to the worker's stdin
    stdout,           \* lines written by the worker, not yet read
    delivered,        \* outputs fired on _onLog, in order
    exitCode,         \* the ChildProcess's exitCode: Null until it exits with a code
    startPromise,     \* the promise start() returned: "none" before start() is called
    graceTimer,       \* the setTimeout of start(): ms left, Unarmed when not armed
    spawnError        \* TRUE while the ChildProcess's 'error' event is queued

clientVars == <<process, worker, rpcId, pendingRequests, timers, calls, stdin, stdout,
                delivered, exitCode, startPromise, graceTimer, spawnError>>

\* The Compass terminal of the extension (vscode-extension/src/extension.ts):
\* the pseudoterminal, the commands run in it and the process that gets the
\* keystrokes.
VARIABLES
    children,         \* the processes spawned by runInCompassTerminal, in order
    activeProcess,    \* activeProcess: an index into children, NoProcess when undefined
    termOut,          \* the handler that ran last, the chunk it was given and the
                      \* string it fired on writeEmitter (Nothing when it fired none)
    written           \* what the handler that ran last wrote to the stdin of a
                      \* process: the process and the bytes (NoProcess, Nothing when
                      \* it wrote none)

termVars == <<children, activeProcess, termOut, written>>

\* The commands of the extension (vscode-extension/src/extension.ts) and the
\* step tree (vscode-extension/src/stepsProvider.ts).  A CompassClient is
\* seen here from the commands: what its promises settle with.
VARIABLES
    client,           \* client: an index into clients, NoClient when undefined
    clients,          \* every CompassClient constructed, with its worker's steps
    tasks,            \* the command runs that are waiting on a promise
    finished,         \* the command run that ended last: what it failed with and
                      \* the error messages it showed
    commands,         \* the number of commands invoked
    steps,            \* StepsProvider.steps
    view,             \* the tree view: the element last expanded and its items
    shownFrom         \* the client whose get_steps response StepsProvider.steps is

driverVars == <<client, clients, tasks, finished, commands, steps, view, shownFrom>>

\* The Collaboration Session (compass tui --share): the host's Session, the
\* connection of each remote peer and the state each Guest has built from what
\* it received.
VARIABLES
    session,          \* the Session: state, sequence counter, Peer set, and the
                      \* run the Host owns (current step, step statuses)
    link,             \* per remote peer: its connection and the messages in
                      \* flight to it
    replica,          \* per remote peer: what it has received and applied
    workerCalls       \* execution calls that reached the worker

collabVars == <<session, link, replica, workerCalls>>

vars == <<clientVars, termVars, driverVars, collabVars>>

\* A promise returned by sendRequest.
\*   id: the id the call allocated (NoId when it allocated none)
\*   state: "pending", "resolved", "rejected"; value: the result or message
\*   settles: how many times resolve/reject was invoked on it
\*   by: the line handed to the call's callback when it settled (NoLine
\*       when it was not settled by a line)
NewCall(id) == [id |-> id, state |-> "pending", value |-> Undefined,
                settles |-> 0, by |-> NoLine]

\* The remote peers that may join, and the Host's own entry in the Peer set.
Guests == {"g1", "g2"}
Host == "host"
Role(p) == IF p = Host THEN "Host" ELSE "Guest"

\* The steps of the shared run.
SharedSteps == {0, 1}
NoSeq == -1                  \* nothing applied yet

\* The certificate the Host generated, and the one an interceptor presents.
HostCertificate == "host.crt"
Certificates == {HostCertificate, "other.crt"}

\* The fingerprint of a certificate: a cryptographic digest, one per certificate.
Digest(cert) == IF cert = HostCertificate THEN "AB:12" ELSE "CD:34"

\* wss://<IP>:3030/?pin=<FINGERPRINT>: the PIN is the fingerprint.
JoinToken == [address |-> "wss://host:3030", digest |-> Digest(HostCertificate)]
HostPin == Digest(HostCertificate)
Pins == {HostPin, "00:00"}

NoLink == [phase |-> "none", cert |-> Null, pin |-> Null, error |-> Null,
           inbox |-> << >>, resync |-> FALSE, reply |-> Null]

NoReplica == [first |-> "none", got |-> 0, applied |-> NoSeq, synced |-> FALSE,
              index |-> 0, statuses |-> [i \in SharedSteps |-> "Pending"]]

NewSession == [state |-> "Created", seq |-> 0, peers |-> {Host},
               index |-> 0, statuses |-> [i \in SharedSteps |-> "Pending"]]

NoItem == -1                 \* compass.executeStep invoked without a tree item

Init ==
    /\ process = "undefined"
    /\ worker = "none"
    /\ rpcId = FIRST_RPC_ID
    /\ pendingRequests = EmptyMap
    /\ timers = EmptyMap
    /\ calls = << >>
    /\ stdin = {}
    /\ stdout = << >>
    /\ delivered = << >>
    /\ exitCode = Null
    /\ startPromise = "none"
    /\ graceTimer = Unarmed
    /\ spawnError = FALSE
    /\ children = << >>
    /\ activeProcess = NoProcess
    /\ termOut = [by |-> "none", data |-> Nothing, fired |-> Nothing]
    /\ written = [to |-> NoProcess, bytes |-> Nothing]
    /\ client = NoClient
    /\ clients = << >>
    /\ tasks = << >>
    /\ finished = NoTask
    /\ commands = 0
    /\ steps = << >>
    /\ view = [of |-> NoItem, items |-> << >>]
    /\ shownFrom = NoClient
    /\ session = NewSession
    /\ link = [g \in Guests |-> NoLink]
    /\ replica = [g \in Guests |-> NoReplica]
    /\ workerCalls = 0

\* ------------------------------------------------------------- promises
\* resolve()/reject() on a promise: the first settlement is final, a later
\* one is counted but changes neither state nor value.
Settle(c, state, value, by) ==
    IF c.state = "pending"
    THEN [c EXCEPT !.state = state, !.value = value, !.by = by, !.settles = @ + 1]
    ELSE [c EXCEPT !.settles = @ + 1]

\* the last resolve or reject wins
SettleStart_lastWins(p, state) == state

SettleStart(p, state) == IF p = "pending" THEN state ELSE p

\* ---------------------------------------------------------------- start
\* start(): spawn the worker (spawnOk: the executable exists), attach the
\* reader and arm the grace timer.  A failed spawn still yields a
\* ChildProcess object and queues its 'error' event.
Start(spawnOk) ==
    /\ startPromise = "none"
    /\ process' = "set"
    /\ worker' = IF spawnOk THEN "running" ELSE "failed"
    /\ spawnError' = ~spawnOk
    /\ startPromise' = "pending"
    /\ graceTimer' = GRACE_MS
    /\ UNCHANGED <<rpcId, pendingRequests, timers, calls, stdin, stdout, delivered, exitCode>>
    /\ UNCHANGED <<termVars, driverVars, collabVars>>

\* process.on('error'): reject the start promise
OnSpawnError ==
    /\ spawnError
    /\ spawnError' = FALSE
    /\ startPromise' = SettleStart(startPromise, "rejected")
    /\ UNCHANGED <<process, worker, rpcId, pendingRequests, timers, calls, stdin, stdout,
                   delivered, exitCode, graceTimer>>
    /\ UNCHANGED <<termVars, driverVars, collabVars>>

\* the callback tests the exit code of the process it spawned, not this.process
GraceExpired_ownProcess ==
    /\ graceTimer = 0
    /\ ~spawnError
    /\ graceTimer' = Unarmed
    /\ startPromise' = SettleStart(startPromise,
                          IF exitCode # Null THEN "rejected" ELSE "resolved")
    /\ UNCHANGED <<process, worker, rpcId, pendingRequests, timers, calls, stdin, stdout,
                   delivered, exitCode, spawnError>>
    /\ UNCHANGED <<termVars, driverVars, collabVars>>

\* the grace timer's callback: this.process?.exitCode !== null.  The 'error'
\* event of a failed spawn is emitted on the next tick, before any timer runs.
GraceExpired ==
    /\ graceTimer = 0
    /\ ~spawnError
    /\ graceTimer' = Unarmed
    /\ startPromise' = SettleStart(startPromise,
                          IF process = "undefined" \/ exitCode # Null
                          THEN "rejected" ELSE "resolved")
    /\ UNCHANGED <<process, worker, rpcId, pendingRequests, timers, calls, stdin, stdout,
                   delivered, exitCode, spawnError>>
    /\ UNCHANGED <<termVars, driverVars, collabVars>>

\* ---------------------------------------------------------- sendRequest
\* the counter is not advanced: the next call gets the same id again
NextRpcId_reused(id) == id

\* const id = this.rpcId++
NextRpcId(id) == id + 1

\* the timer rejects the call but leaves its entry in the table
TimeoutCallback_keepsEntry(k, id) ==
    IF id \in DOMAIN pendingRequests
    THEN /\ calls' = [calls EXCEPT ![k] = Settle(@, "rejected", "Request timed out", NoLine)]
         /\ UNCHANGED pendingRequests
    ELSE UNCHANGED <<pendingRequests, calls>>

\* the timer removes the entry but forgets to reject the call
TimeoutCallback_noReject(k, id) ==
    IF id \in DOMAIN pendingRequests
    THEN /\ pendingRequests' = MapDelete(pendingRequests, id)
         /\ UNCHANGED calls
    ELSE UNCHANGED <<pendingRequests, calls>>

\* the timer rejects its call and empties the whole table
TimeoutCallback_clearsTable(k, id) ==
    IF id \in DOMAIN pendingRequests
    THEN /\ pendingRequests' = EmptyMap
         /\ calls' = [calls EXCEPT ![k] = Settle(@, "rejected", "Request timed out", NoLine)]
    ELSE UNCHANGED <<pendingRequests, calls>>

\* the setTimeout callback of the call with index k and id `id`
TimeoutCallback(k, id) ==
    IF id \in DOMAIN pendingRequests
    THEN /\ pendingRequests' = MapDelete(pendingRequests, id)
         /\ calls' = [calls EXCEPT ![k] = Settle(@, "rejected", "Request timed out", NoLine)]
    ELSE UNCHANGED <<pendingRequests, calls>>

\* the entry is registered before the request is serialised and written
SendRequest_registersFirst(serialisable) ==
    /\ Len(calls) < MaxCalls
    /\ LET k == Len(calls) + 1 IN
       IF process = "undefined"
       THEN /\ calls' = Append(calls, Settle(NewCall(NoId), "rejected", "Process not started", NoLine))
            /\ UNCHANGED <<rpcId, stdin, timers, pendingRequests>>
       ELSE LET id == rpcId IN
            /\ rpcId' = NextRpcId(rpcId)
            /\ pendingRequests' = MapSet(pendingRequests, id, k)
            /\ IF ~serialisable
               THEN /\ calls' = Append(calls, Settle(NewCall(id), "rejected", "TypeError", NoLine))
                    /\ UNCHANGED <<stdin, timers>>
               ELSE /\ stdin' = IF worker = "running" THEN stdin \cup {id} ELSE stdin
                    /\ timers' = MapSet(timers, k, REQUEST_TIMEOUT_MS)
                    /\ calls' = Append(calls, NewCall(id))
    /\ UNCHANGED <<process, worker, stdout, delivered, exitCode, startPromise, graceTimer,
                   spawnError>>
    /\ UNCHANGED <<termVars, driverVars, collabVars>>

\* this.process is not tested: the write on undefined throws inside the try
SendRequest_unguarded(serialisable) ==
    /\ Len(calls) < MaxCalls
    /\ LET k == Len(calls) + 1
           id == rpcId IN
       /\ rpcId' = NextRpcId(rpcId)
       /\ IF ~serialisable \/ process = "undefined"
          THEN /\ calls' = Append(calls, Settle(NewCall(id), "rejected", "TypeError", NoLine))
               /\ UNCHANGED <<stdin, timers, pendingRequests>>
          ELSE /\ stdin' = IF worker = "running" THEN stdin \cup {id} ELSE stdin
               /\ timers' = MapSet(timers, k, REQUEST_TIMEOUT_MS)
               /\ pendingRequests' = MapSet(pendingRequests, id, k)
               /\ calls' = Append(calls, NewCall(id))
    /\ UNCHANGED <<process, worker, stdout, delivered, exitCode, startPromise, graceTimer,
                   spawnError>>
    /\ UNCHANGED <<termVars, driverVars, collabVars>>

\* sendRequest(method, params); serialisable: JSON.stringify(req) does not throw
SendRequest(serialisable) ==
    /\ Len(calls) < MaxCalls
    /\ LET k == Len(calls) + 1 IN
       IF process = "undefined"
       THEN /\ calls' = Append(calls, Settle(NewCall(NoId), "rejected", "Process not started", NoLine))
            /\ UNCHANGED <<rpcId, stdin, timers, pendingRequests>>
       ELSE LET id == rpcId IN
            /\ rpcId' = NextRpcId(rpcId)
            /\ IF ~serialisable
               THEN /\ calls' = Append(calls, Settle(NewCall(id), "rejected", "TypeError", NoLine))
                    /\ UNCHANGED <<stdin, timers, pendingRequests>>
               ELSE /\ stdin' = IF worker = "running" THEN stdin \cup {id} ELSE stdin
                    /\ timers' = MapSet(timers, k, REQUEST_TIMEOUT_MS)
                    /\ pendingRequests' = MapSet(pendingRequests, id, k)
                    /\ calls' = Append(calls, NewCall(id))
    /\ UNCHANGED <<process, worker, stdout, delivered, exitCode, startPromise, graceTimer,
                   spawnError>>
    /\ UNCHANGED <<termVars, driverVars, collabVars>>

\* the timer of call k fires
RequestTimeout(k) ==
    /\ k \in DOMAIN timers
    /\ timers[k] = 0
    /\ timers' = MapDelete(timers, k)
    /\ TimeoutCallback(k, calls[k].id)
    /\ UNCHANGED <<process, worker, rpcId, stdin, stdout, delivered, exitCode, startPromise,
                   graceTimer, spawnError>>
    /\ UNCHANGED <<termVars, driverVars, collabVars>>

\* ----------------------------------------------------------- the reader
\* !json.id && json.method === 'log' && json.params?.output
IsNotification(json) ==
    ~TruthyNum(json.id) /\ json.method = "log" /\ TruthyStr(json.output)

\* json.id && this.pendingRequests.has(json.id)
IsResponse(json) ==
    TruthyNum(json.id) /\ json.id \in DOMAIN pendingRequests

\* the oldest registered callback is invoked, whatever id the line carries
PendingCallback_oldest(json) ==
    pendingRequests[CHOOSE i \in DOMAIN pendingRequests :
                        \A j \in DOMAIN pendingRequests : i <= j]

\* this.pendingRequests.get(json.id): the call whose callback is invoked
PendingCallback(json) == pendingRequests[json.id]

\* the callback settles the call but leaves its timer armed
ResponseCallback_keepsTimer(k, response) ==
    /\ timers' = timers
    /\ calls' = [calls EXCEPT ![k] =
                    IF TruthyStr(response.error)
                    THEN Settle(@, "rejected", response.error, response)
                    ELSE Settle(@, "resolved", response.result, response)]

\* the callback sendRequest registered for call k, applied to a response
ResponseCallback(k, response) ==
    /\ timers' = MapDelete(timers, k)
    /\ calls' = [calls EXCEPT ![k] =
                    IF TruthyStr(response.error)
                    THEN Settle(@, "rejected", response.error, response)
                    ELSE Settle(@, "resolved", response.result, response)]

\* the entry is left in the table after its callback ran
AfterCallback_keepsEntry(json) == pendingRequests

\* this.pendingRequests.delete(json.id) after the callback ran
AfterCallback(json) == MapDelete(pendingRequests, json.id)

\* a line with an id nobody waits for empties the table
LineHandler_clearsOnUnknown(line) ==
    IF line.kind # "obj"
    THEN UNCHANGED <<delivered, pendingRequests, timers, calls>>
    ELSE IF IsNotification(line)
    THEN /\ delivered' = Append(delivered, line.output)
         /\ UNCHANGED <<pendingRequests, timers, calls>>
    ELSE IF IsResponse(line)
    THEN /\ ResponseCallback(PendingCallback(line), line)
         /\ pendingRequests' = AfterCallback(line)
         /\ UNCHANGED delivered
    ELSE /\ pendingRequests' = EmptyMap
         /\ UNCHANGED <<delivered, timers, calls>>

\* reader.on('line'): the handler applied to one line
LineHandler(line) ==
    IF line.kind # "obj"
    THEN \* blank: return; garbage and null: the catch block logs the line
         UNCHANGED <<delivered, pendingRequests, timers, calls>>
    ELSE IF IsNotification(line)
    THEN /\ delivered' = Append(delivered, line.output)
         /\ UNCHANGED <<pendingRequests, timers, calls>>
    ELSE IF IsResponse(line)
    THEN /\ ResponseCallback(PendingCallback(line), line)
         /\ pendingRequests' = AfterCallback(line)
         /\ UNCHANGED delivered
    ELSE UNCHANGED <<delivered, pendingRequests, timers, calls>>

\* the reader emits the next buffered line
OnLine ==
    /\ stdout # << >>
    /\ stdout' = Tail(stdout)
    /\ LineHandler(Head(stdout))
    /\ UNCHANGED <<process, worker, rpcId, stdin, exitCode, startPromise, graceTimer,
                   spawnError>>
    /\ UNCHANGED <<termVars, driverVars, collabVars>>

\* -------------------------------------------------------------- dispose
\* kill() is called without testing this.process: it throws on undefined
Dispose_unguarded ==
    /\ process = "set"
    /\ worker' = IF worker = "running" THEN "exited" ELSE worker
    /\ process' = "undefined"
    /\ UNCHANGED <<rpcId, pendingRequests, timers, calls, stdin, stdout, delivered, exitCode,
                   startPromise, graceTimer, spawnError>>
    /\ UNCHANGED <<termVars, driverVars, collabVars>>

Dispose ==
    /\ IF process = "set"
       THEN /\ worker' = IF worker = "running" THEN "exited" ELSE worker
            /\ process' = "undefined"
       ELSE UNCHANGED <<process, worker>>
    /\ UNCHANGED <<rpcId, pendingRequests, timers, calls, stdin, stdout, delivered, exitCode,
                   startPromise, graceTimer, spawnError>>
    /\ UNCHANGED <<termVars, driverVars, collabVars>>

\* dispose() on a worker the extension may not signal: kill() emits 'error'
\* (EPERM) while it runs, the handler of start() rejects, and the worker
\* lives on.
DisposeKillDenied ==
    /\ process = "set"
    /\ worker = "running"
    /\ process' = "undefined"
    /\ startPromise' = SettleStart(startPromise, "rejected")
    /\ UNCHANGED <<worker, rpcId, pendingRequests, timers, calls, stdin, stdout, delivered,
                   exitCode, graceTimer, spawnError>>
    /\ UNCHANGED <<termVars, driverVars, collabVars>>

\* ------------------------------------------------------ the environment
LogsInFlight == Cardinality({i \in 1 .. Len(stdout) : stdout[i] \in LogLines})

\* the worker writes one line to its stdout
WorkerWrite(line) ==
    /\ worker = "running"
    /\ Len(stdout) < MaxQueue
    /\ line \in LogLines => Len(delivered) + LogsInFlight < MaxLog
    /\ stdout' = Append(stdout, line)
    /\ UNCHANGED <<process, worker, rpcId, pendingRequests, timers, calls, stdin, delivered,
                   exitCode, startPromise, graceTimer, spawnError>>
    /\ UNCHANGED <<termVars, driverVars, collabVars>>

\* the worker exits on its own with an exit code
WorkerExit(code) ==
    /\ worker = "running"
    /\ worker' = "exited"
    /\ exitCode' = code
    /\ UNCHANGED <<process, rpcId, pendingRequests, timers, calls, stdin, stdout, delivered,
                   startPromise, graceTimer, spawnError>>
    /\ UNCHANGED <<termVars, driverVars, collabVars>>

\* the worker is terminated by a signal it did not get from dispose():
\* exitCode stays null (signalCode is set instead)
WorkerSignalled ==
    /\ worker = "running"
    /\ worker' = "exited"
    /\ UNCHANGED <<process, rpcId, pendingRequests, timers, calls, stdin, stdout, delivered,
                   exitCode, startPromise, graceTimer, spawnError>>
    /\ UNCHANGED <<termVars, driverVars, collabVars>>

\* time passes: every armed timer gets TickMs closer to firing
Elapse(ms) == IF ms <= 0 THEN ms ELSE IF ms > TickMs THEN ms - TickMs ELSE 0

Tick ==
    /\ (\E k \in DOMAIN timers : timers[k] > 0) \/ graceTimer > 0
    /\ timers' = [k \in DOMAIN timers |-> Elapse(timers[k])]
    /\ graceTimer' = Elapse(graceTimer)
    /\ UNCHANGED <<process, worker, rpcId, pendingRequests, calls, stdin, stdout, delivered,
                   exitCode, startPromise, spawnError>>
    /\ UNCHANGED <<termVars, driverVars, collabVars>>

\* The request/response machinery.  The two handlers that settle the promise
\* of start() read and write only startPromise, graceTimer and spawnError,
\* which nothing here reads: they are left to StartNext.
Next ==
    \/ \E ok \in BOOLEAN : Start(ok)
    \/ \E ser \in BOOLEAN : SendRequest(ser)
    \/ \E k \in 1 .. MaxCalls : RequestTimeout(k)
    \/ OnLine
    \/ Dispose
    \/ \E line \in Lines : WorkerWrite(line)
    \/ \E code \in ExitCodes : WorkerExit(code)
    \/ Tick

Spec == Init /\ [][Next]_vars

\* Timers fire and time passes (the Node event loop runs every due timer and
\* every queued event); the reader drains what the worker wrote.
LiveSpec ==
    /\ Spec
    /\ WF_vars(Tick)
    /\ WF_vars(OnLine)
    /\ \A k \in 1 .. MaxCalls : WF_vars(RequestTimeout(k))

\* start() and what settles its promise, with requests sent to a worker that
\* writes nothing
StartNext ==
    \/ \E ok \in BOOLEAN : Start(ok)
    \/ OnSpawnError
    \/ GraceExpired
    \/ \E ser \in BOOLEAN : SendRequest(ser)
    \/ \E k \in 1 .. MaxCalls : RequestTimeout(k)
    \/ Dispose
    \/ DisposeKillDenied
    \/ \E code \in ExitCodes : WorkerExit(code)
    \/ WorkerSignalled
    \/ Tick

StartSpec == Init /\ [][StartNext]_vars

\* ------------------------------------------------------------ the terminal
\* A string is a sequence of bytes; a colour escape sequence is one symbol.
CR == "CR"                   \* '\r'
LF == "LF"                   \* '\n'
ETX == "ETX"                 \* '\x03'
SGR_RED == "ESC[31m"         \* '\x1b[31m'
SGR_RESET == "ESC[0m"        \* '\x1b[0m'

\* The bytes of a chunk of keystrokes and of a chunk of process output; "a"
\* stands for every byte the code does not look at.
InBytes == {"a", CR, ETX}
OutBytes == {"a", CR, LF}

Strings(bytes) == UNION {[1 .. n -> bytes] : n \in 1 .. MaxChunk}

InChunks == Strings(InBytes)
OutChunks == Strings(OutBytes)

Range(s) == {s[i] : i \in DOMAIN s}

\* data.toString().replace(/\n/g, '\r\n')
RECURSIVE ReplaceLF_firstOnly(_)
ReplaceLF_firstOnly(s) ==
    IF s = << >> THEN << >>
    ELSE IF Head(s) = LF THEN <<CR, LF>> \o Tail(s)
    ELSE <<Head(s)>> \o ReplaceLF_firstOnly(Tail(s))

RECURSIVE ReplaceLF(_)
ReplaceLF(s) ==
    IF s = << >> THEN << >>
    ELSE IF Head(s) = LF THEN <<CR, LF>> \o ReplaceLF(Tail(s))
    ELSE <<Head(s)>> \o ReplaceLF(Tail(s))

Header == <<"ESC[33m", "$ compass", SGR_RESET, CR, LF>>
Ready == <<"ESC[36m", "Compass Navigator Terminal Ready", SGR_RESET, CR, LF, CR, LF>>
FailedToStart == <<SGR_RED, "Failed to start subprocess", SGR_RESET, CR, LF>>
Exited == <<CR, LF, "ESC[90m", "Command exited with code", SGR_RESET, CR, LF, CR, LF>>
CtrlC == <<"^", "C", CR, LF>>

\* cp.spawn: a ChildProcess, not closed and not killed
NewChild == [closed |-> FALSE, killed |-> FALSE]

\* writeEmitter.fire(s) in handler by, which was given the chunk data;
\* s is Nothing when the handler fires no string
Fire(by, data, s) == termOut' = [by |-> by, data |-> data, fired |-> s]

\* child.kill()
Kill(c) == children' = [children EXCEPT ![c].killed = TRUE]

\* child.stdin.write(s)
Write(c, s) == written' = [to |-> c, bytes |-> s]

NoWrite == written' = [to |-> NoProcess, bytes |-> Nothing]

RunInCompassTerminal ==
    /\ Len(children) < MaxChildren
    /\ Fire("runInCompassTerminal", Nothing, Header)
    /\ children' = Append(children, NewChild)
    /\ activeProcess' = Len(children) + 1
    /\ NoWrite
    /\ UNCHANGED <<clientVars, driverVars, collabVars>>

StdoutData(c, data) ==
    /\ ~children[c].closed
    /\ Fire("stdout", data, ReplaceLF(data))
    /\ NoWrite
    /\ UNCHANGED <<children, activeProcess, clientVars, driverVars, collabVars>>

StderrData(c, data) ==
    /\ ~children[c].closed
    /\ Fire("stderr", data, <<SGR_RED>> \o ReplaceLF(data) \o <<SGR_RESET>>)
    /\ NoWrite
    /\ UNCHANGED <<children, activeProcess, clientVars, driverVars, collabVars>>

ChildError(c) ==
    /\ ~children[c].closed
    /\ Fire("error", Nothing, FailedToStart)
    /\ NoWrite
    /\ UNCHANGED <<children, activeProcess, clientVars, driverVars, collabVars>>

ChildClose_clearsAlways(c) ==
    /\ ~children[c].closed
    /\ Fire("close", Nothing, Exited)
    /\ children' = [children EXCEPT ![c].closed = TRUE]
    /\ activeProcess' = NoProcess
    /\ NoWrite
    /\ UNCHANGED <<clientVars, driverVars, collabVars>>

ChildClose(c) ==
    /\ ~children[c].closed
    /\ Fire("close", Nothing, Exited)
    /\ children' = [children EXCEPT ![c].closed = TRUE]
    /\ activeProcess' = IF activeProcess = c THEN NoProcess ELSE activeProcess
    /\ NoWrite
    /\ UNCHANGED <<clientVars, driverVars, collabVars>>

PtyOpen ==
    /\ Fire("open", Nothing, Ready)
    /\ NoWrite
    /\ UNCHANGED <<children, activeProcess, clientVars, driverVars, collabVars>>

PtyClose ==
    /\ IF activeProcess # NoProcess
       THEN Kill(activeProcess)
       ELSE UNCHANGED children
    /\ Fire("pty.close", Nothing, Nothing)
    /\ NoWrite
    /\ UNCHANGED <<activeProcess, clientVars, driverVars, collabVars>>

Forwarding_ignoresKilled == activeProcess # NoProcess

\* if (activeProcess && !activeProcess.killed && activeProcess.stdin)
Forwarding == activeProcess # NoProcess /\ ~children[activeProcess].killed

\* What handleInput writes to stdin for a chunk it forwards.
Forwarded_everyCR(data) == [i \in DOMAIN data |-> IF data[i] = CR THEN LF ELSE data[i]]

Forwarded(data) == IF data = <<CR>> THEN <<LF>> ELSE data

\* What handleInput echoes for a chunk it forwards.
Echoed(data) == IF data = <<CR>> THEN <<CR, LF>> ELSE data

HandleInput(data) ==
    /\ IF Forwarding
       THEN IF data = <<ETX>>
            THEN /\ Fire("handleInput", data, CtrlC)
                 /\ Kill(activeProcess)
                 /\ NoWrite
            ELSE /\ Fire("handleInput", data, Echoed(data))
                 /\ Write(activeProcess, Forwarded(data))
                 /\ UNCHANGED children
       ELSE /\ Fire("handleInput", data, Nothing)
            /\ NoWrite
            /\ UNCHANGED children
    /\ UNCHANGED <<activeProcess, clientVars, driverVars, collabVars>>

\* client.onLog((data) => writeEmitter.fire(data.replace(/\n/g, '\r\n')))
OnLog(data) ==
    /\ Fire("onLog", data, ReplaceLF(data))
    /\ NoWrite
    /\ UNCHANGED <<children, activeProcess, clientVars, driverVars, collabVars>>

TermNext ==
    \/ RunInCompassTerminal
    \/ \E c \in DOMAIN children, data \in OutChunks : StdoutData(c, data)
    \/ \E c \in DOMAIN children, data \in OutChunks : StderrData(c, data)
    \/ \E c \in DOMAIN children : ChildError(c)
    \/ \E c \in DOMAIN children : ChildClose(c)
    \/ PtyOpen
    \/ PtyClose
    \/ \E data \in InChunks : HandleInput(data)
    \/ \E data \in OutChunks : OnLog(data)

TermSpec == Init /\ [][TermNext]_vars

\* --------------------------------------------------------------- the driver
\* The Markdown files a client is started on: the titles of their steps.
Docs == {<<"Setup">>, <<"Intro", "Build">>}

\* The worker's list of steps for a file, as get_steps returns it at first.
CodeBlocks(title) == IF title = "Intro" THEN << >> ELSE <<"sh">>

ParsedSteps(doc) ==
    [i \in DOMAIN doc |->
        [title |-> doc[i], status |-> "Pending", code_blocks |-> CodeBlocks(doc[i])]]

\* e.message
Message(e) == IF e.kind = "Error" THEN e.text ELSE Undefined

NewClient(doc, spawn) ==
    [process |-> IF spawn = "throws" THEN "undefined" ELSE "set",
     spawn |-> spawn,
     worker |-> IF spawn = "ok" THEN "running" ELSE "none",
     wsteps |-> IF spawn = "ok" THEN ParsedSteps(doc) ELSE << >>]

\* dispose() forgets the process without killing it
Disposed_keepsWorker(c) == [c EXCEPT !.process = "undefined"]

\* client.dispose(); the steps of a worker end with its process
Disposed(c) ==
    IF c.process = "set"
    THEN [c EXCEPT !.process = "undefined",
                   !.worker = IF @ = "running" THEN "killed" ELSE @,
                   !.wsteps = << >>]
    ELSE c

\* A command run waiting on a promise of client on.
NewTask(cmd, pc, on, index) == [cmd |-> cmd, pc |-> pc, on |-> on, index |-> index]

Without(t) == [i \in 1 .. Len(tasks) - 1 |-> IF i < t THEN tasks[i] ELSE tasks[i + 1]]

Prefix(cmd) == IF cmd = "start" THEN "Compass Error: " ELSE "Execution Failed: "

\* catch (e) { vscode.window.showErrorMessage(`${prefix}${e.message}`) }
Caught(cmd, e) == [cmd |-> cmd, failure |-> e, shown |-> <<<<Prefix(cmd), Message(e)>>>>]

\* An early return of a command with its own message.
Refused(cmd, text) == [cmd |-> cmd, failure |-> Error(text), shown |-> <<<<"", text>>>>]

\* The run ended without a failure.
Done(cmd) == [cmd |-> cmd, failure |-> NoFailure, shown |-> << >>]

\* Run t ends in its catch block.
Catch(t, e) ==
    /\ tasks' = Without(t)
    /\ finished' = Caught(tasks[t].cmd, e)

\* await client.getSteps(): sendRequest on the client the variable holds now
AwaitGetSteps(t) ==
    IF clients[client].process = "undefined"
    THEN Catch(t, ProcessNotStarted)
    ELSE /\ tasks' = [tasks EXCEPT ![t].pc = "getSteps", ![t].on = client]
         /\ UNCHANGED finished

\* stepsProvider.refresh(steps, client)
Refresh_appends(L) == steps' = steps \o L

Refresh(L) == steps' = L

\* new StepItem(step, index)
StepItem(step, index) ==
    [step |-> step,
     index |-> index,
     label |-> <<index + 1, ". ", step.title>>,
     description |-> step.status,
     collapsible |-> Len(step.code_blocks) > 0]

\* new CodeItem(block, index)
CodeItem(block, index) == [block |-> block, index |-> index, description |-> block]

\* getChildren() without an element
GetChildren == [i \in DOMAIN steps |-> StepItem(steps[i], i - 1)]

\* getChildren(element): the code blocks of the step the item holds
GetChildrenOf(element) ==
    [i \in DOMAIN element.step.code_blocks |-> CodeItem(element.step.code_blocks[i], i - 1)]

NoElement == [index |-> NoItem]

\* The items the view holds: those of the last getChildren call, each handed
\* through getTreeItem, which returns its argument.
GetTreeItem(element) == element

Rendered_shifts(element) ==
    /\ view' = [of |-> element.index,
                items |-> IF element.index = NoItem THEN GetChildren ELSE GetChildrenOf(element)]
    /\ steps' = IF steps = << >> THEN steps ELSE Tail(steps)
    /\ UNCHANGED <<client, clients, tasks, finished, commands, shownFrom, clientVars, termVars,
                   collabVars>>

\* VS Code asks the provider for the children of the root or of an item.
Rendered(element) ==
    /\ view' = [of |-> element.index,
                items |-> LET items == IF element.index = NoItem THEN GetChildren
                                       ELSE GetChildrenOf(element)
                          IN  [i \in DOMAIN items |-> GetTreeItem(items[i])]]
    /\ UNCHANGED <<client, clients, tasks, finished, commands, steps, shownFrom, clientVars,
                   termVars, collabVars>>

StartCommand(editor, doc, spawn) ==
    /\ commands < MaxCommands
    /\ commands' = commands + 1
    /\ IF editor = "none"
       THEN /\ finished' = Refused("start", "Open a Markdown file first!")
            /\ UNCHANGED <<client, clients, tasks>>
       ELSE IF editor # "markdown"
       THEN /\ finished' = Refused("start", "Compass only works with Markdown files.")
            /\ UNCHANGED <<client, clients, tasks>>
       ELSE /\ clients' = Append(IF client # NoClient
                                 THEN [clients EXCEPT ![client] = Disposed(@)]
                                 ELSE clients,
                                 NewClient(doc, spawn))
            /\ client' = Len(clients) + 1
            /\ tasks' = Append(tasks, NewTask("start", "start", Len(clients) + 1, NoItem))
            /\ UNCHANGED finished
    /\ UNCHANGED <<steps, view, shownFrom, clientVars, termVars, collabVars>>

\* What start() of a client is rejected with, NoFailure when it resolves.
StartOutcome(c) ==
    IF c.spawn = "throws" THEN Error("spawn EINVAL")
    ELSE IF c.spawn = "error" THEN Error("Failed to spawn 'compass'. Is it installed?")
    ELSE IF c.process = "undefined" THEN Error("Compass exited immediately with code undefined")
    ELSE IF c.worker = "exited" THEN Error("Compass exited immediately with code 1")
    ELSE NoFailure

StartSettles(t) ==
    /\ tasks[t].pc = "start"
    /\ LET e == StartOutcome(clients[tasks[t].on])
       IN  IF e # NoFailure THEN Catch(t, e) ELSE AwaitGetSteps(t)
    /\ UNCHANGED <<client, clients, commands, steps, view, shownFrom, clientVars, termVars, collabVars>>

GetStepsSettles(t, outcome) ==
    /\ tasks[t].pc = "getSteps"
    /\ LET c == clients[tasks[t].on]
       IN  \/ /\ outcome = "result"
              /\ c.worker = "running"
              /\ Refresh(c.wsteps)
              /\ shownFrom' = tasks[t].on
              /\ tasks' = Without(t)
              /\ finished' = Done(tasks[t].cmd)
           \/ /\ outcome = "error"
              /\ c.worker = "running"
              /\ Catch(t, Error("Internal error"))
              /\ UNCHANGED <<steps, shownFrom>>
           \/ /\ outcome = "timeout"
              /\ Catch(t, Error("Request timed out"))
              /\ UNCHANGED <<steps, shownFrom>>
    /\ UNCHANGED <<client, clients, commands, view, clientVars, termVars, collabVars>>

ExecuteStepCommand(index) ==
    /\ commands < MaxCommands
    /\ commands' = commands + 1
    /\ IF client = NoClient
       THEN /\ finished' = Refused("executeStep", "Compass is not running.")
            /\ UNCHANGED tasks
       ELSE IF index = NoItem
       THEN /\ finished' = Caught("executeStep",
                                  Error("Cannot read properties of undefined (reading 'step')"))
            /\ UNCHANGED tasks
       ELSE IF clients[client].process = "undefined"
       THEN /\ finished' = Caught("executeStep", ProcessNotStarted)
            /\ UNCHANGED tasks
       ELSE /\ tasks' = Append(tasks, NewTask("executeStep", "executeStep", client, index))
            /\ UNCHANGED finished
    /\ UNCHANGED <<client, clients, steps, view, shownFrom, clientVars, termVars, collabVars>>

\* The worker runs step index and records how it ended.
Ran(c, index, status) ==
    IF index + 1 \in DOMAIN c.wsteps
    THEN [c EXCEPT !.wsteps[index + 1].status = status]
    ELSE c

ExecuteSettles(t, outcome) ==
    /\ tasks[t].pc = "executeStep"
    /\ LET on == tasks[t].on
           c == clients[on]
       IN  \/ /\ outcome = "success"
              /\ c.worker = "running"
              /\ tasks[t].index + 1 \in DOMAIN c.wsteps
              /\ clients' = [clients EXCEPT ![on] = Ran(@, tasks[t].index, "Success")]
              /\ AwaitGetSteps(t)
           \/ /\ outcome = "error"
              /\ c.worker = "running"
              /\ clients' = [clients EXCEPT ![on] = Ran(@, tasks[t].index, "Failed")]
              /\ Catch(t, Error("Step failed"))
           \/ /\ outcome = "timeout"
              /\ Catch(t, Error("Request timed out"))
              /\ UNCHANGED clients
    /\ UNCHANGED <<client, commands, steps, view, shownFrom, clientVars, termVars, collabVars>>

\* The worker of a client ends by itself, with an exit code or by a signal.
WorkerEnds(c, how) ==
    /\ clients[c].worker = "running"
    /\ clients' = [clients EXCEPT ![c].worker = how, ![c].wsteps = << >>]
    /\ UNCHANGED <<client, tasks, finished, commands, steps, view, shownFrom, clientVars, termVars, collabVars>>

DriverNext ==
    \/ \E editor \in {"none", "plaintext", "markdown"}, doc \in Docs,
          spawn \in {"ok", "error", "throws"} : StartCommand(editor, doc, spawn)
    \/ \E t \in DOMAIN tasks : StartSettles(t)
    \/ \E t \in DOMAIN tasks, outcome \in {"result", "error", "timeout"} :
          GetStepsSettles(t, outcome)
    \/ \E index \in {NoItem} \cup {i - 1 : i \in DOMAIN steps} : ExecuteStepCommand(index)
    \/ \E t \in DOMAIN tasks, outcome \in {"success", "error", "timeout"} :
          ExecuteSettles(t, outcome)
    \/ \E c \in DOMAIN clients, how \in {"exited", "signalled"} : WorkerEnds(c, how)
    \/ \E element \in {NoElement} \cup Range(GetChildren) : Rendered(element)

DriverSpec == Init /\ [][DriverNext]_vars

\* ------------------------------------------------ the Collaboration Session
\* State machine of the Session: Created -> AwaitingPeers <-> Live -> Closed.
Open == session.state \in {"AwaitingPeers", "Live"}

\* The Guests in the Peer set.
Members == session.peers \ {Host}

\* The full state snapshot: current step index, all step statuses and the
\* sequence number the Session is at.
Snapshot ==
    [kind |-> "snapshot", seq |-> session.seq,
     index |-> session.index, statuses |-> session.statuses]

\* A BroadcastEvent: sequence number, kind, payload.
BroadcastEvent(seq, kind, step, status) ==
    [kind |-> kind, seq |-> seq, step |-> step, status |-> status]

\* The host starts sharing: the certificate and the PIN exist, the token is shown.
Share ==
    /\ session.state = "Created"
    /\ session' = [session EXCEPT !.state = "AwaitingPeers"]
    /\ UNCHANGED <<link, replica, workerCalls, clientVars, termVars, driverVars>>

\* Handshake 1: the peer opens the encrypted connection; the server it reached
\* presents cert (the Host's, or another one when the connection is intercepted).
Connect(g, cert, pin) ==
    /\ Open
    /\ link[g].phase = "none"
    /\ link' = [link EXCEPT ![g].phase = "tls", ![g].cert = cert, ![g].pin = pin]
    /\ UNCHANGED <<session, replica, workerCalls, clientVars, termVars, driverVars>>

\* byte-for-byte comparison of the computed digest with the token's
DigestMatches_any(computed, embedded) == TRUE

DigestMatches(computed, embedded) == computed = embedded

\* Handshake 2: the peer checks the presented certificate against its token and
\* aborts on a mismatch, before any application data.
VerifyCertificate(g) ==
    /\ Open
    /\ link[g].phase = "tls"
    /\ link' = IF DigestMatches(Digest(link[g].cert), JoinToken.digest)
               THEN [link EXCEPT ![g].phase = "verified"]
               ELSE [link EXCEPT ![g].phase = "closed", ![g].error = "CertificateMismatch"]
    /\ UNCHANGED <<session, replica, workerCalls, clientVars, termVars, driverVars>>

\* Handshake 3: the peer sends the PIN.
SendPin(g) ==
    /\ Open
    /\ link[g].phase = "verified"
    /\ link' = [link EXCEPT ![g].phase = "pinSent"]
    /\ UNCHANGED <<session, replica, workerCalls, clientVars, termVars, driverVars>>

PinMatches_any(pin) == TRUE

PinMatches(pin) == pin = HostPin

\* Handshake 4, on success: the peer joins the Peer set as a Guest and its
\* snapshot is queued, in one step of the Host's emission path.
Admitted_noSnapshot(g) ==
    /\ session' = [session EXCEPT !.peers = @ \cup {g}, !.state = "Live"]
    /\ link' = [link EXCEPT ![g].phase = "admitted", ![g].resync = TRUE]

Admitted(g) ==
    /\ session' = [session EXCEPT !.peers = @ \cup {g}, !.state = "Live"]
    /\ link' = [link EXCEPT ![g].phase = "admitted", ![g].inbox = <<Snapshot>>]

\* The host rejects the peer and closes the socket.
Rejected(g, error) ==
    /\ link' = [link EXCEPT ![g].phase = "closed", ![g].error = error]
    /\ UNCHANGED session

\* The host checks the PIN it received.
Authenticate(g) ==
    /\ Open
    /\ link[g].phase = "pinSent"
    /\ IF PinMatches(link[g].pin)
       THEN Admitted(g)
       ELSE Rejected(g, "AuthenticationFailed")
    /\ UNCHANGED <<replica, workerCalls, clientVars, termVars, driverVars>>

\* The Host's single emission path hands a message to every Guest in the Peer
\* set; each connection then carries its queue at its own pace.
Fanout_prepends(msg) ==
    link' = [g \in Guests |->
                IF g \in Members THEN [link[g] EXCEPT !.inbox = <<msg>> \o @] ELSE link[g]]

Fanout(msg) ==
    link' = [g \in Guests |->
                IF g \in Members THEN [link[g] EXCEPT !.inbox = Append(@, msg)] ELSE link[g]]

\* The Host emits one sequenced BroadcastEvent; run is the Session with the
\* change the event reports.
Emit(kind, step, status, run) ==
    /\ session.seq < MaxSeq
    /\ session' = [run EXCEPT !.seq = session.seq + 1]
    /\ Fanout(BroadcastEvent(session.seq + 1, kind, step, status))

Running == {i \in SharedSteps : session.statuses[i] = "Running"}

\* The Host moves to another step.
Navigate(i) ==
    /\ Open
    /\ i # session.index
    /\ Emit("navigation", i, Null, [session EXCEPT !.index = i])
    /\ UNCHANGED <<replica, workerCalls, clientVars, termVars, driverVars>>

\* only the Host role may invoke execution-affecting requests
Authorized_any(role) == TRUE

Authorized(role) == role = "Host"

\* A peer asks for the current step to be executed.
ExecutionRequest(p) ==
    /\ Open
    /\ p \in session.peers
    /\ IF Authorized(Role(p))
       THEN /\ Running = {}
            /\ workerCalls' = workerCalls + 1
            /\ Emit("execution-started", session.index, "Running",
                    [session EXCEPT !.statuses[session.index] = "Running"])
       ELSE /\ link' = [link EXCEPT ![p].reply = "PermissionDenied"]
            /\ UNCHANGED <<session, workerCalls>>
    /\ UNCHANGED <<replica, clientVars, termVars, driverVars>>

\* The worker streams a chunk of output of the running step.
OutputChunk ==
    /\ Open
    /\ \E i \in Running : Emit("execution-output-chunk", i, Null, session)
    /\ UNCHANGED <<replica, workerCalls, clientVars, termVars, driverVars>>

\* The running step ends.
ExecutionResult(status) ==
    /\ Open
    /\ \E i \in Running :
          Emit("execution-result", i, status, [session EXCEPT !.statuses[i] = status])
    /\ UNCHANGED <<replica, workerCalls, clientVars, termVars, driverVars>>

\* A Guest applies an event to its copy of the run.
Apply(r, m) ==
    IF m.kind = "navigation" THEN [r EXCEPT !.index = m.step]
    ELSE IF m.kind = "execution-started" THEN [r EXCEPT !.statuses[m.step] = "Running"]
    ELSE IF m.kind = "execution-result" THEN [r EXCEPT !.statuses[m.step] = m.status]
    ELSE r

\* the event is the one after the last applied
InOrder_later(r, m) == m.seq > r.applied

InOrder(r, m) == m.seq = r.applied + 1

Seen(r, kind) == IF r.first = "none" THEN [r EXCEPT !.first = kind] ELSE r

\* A Guest takes the next message off its connection.
Receive(g) ==
    /\ link[g].phase = "admitted"
    /\ link[g].inbox # << >>
    /\ LET m == Head(link[g].inbox)
           r == replica[g]
       IN  IF m.kind = "snapshot"
           THEN /\ replica' = [replica EXCEPT ![g] =
                                 [Seen(r, "snapshot") EXCEPT !.applied = m.seq, !.synced = TRUE,
                                                            !.index = m.index,
                                                            !.statuses = m.statuses]]
                /\ link' = [link EXCEPT ![g].inbox = Tail(@)]
           ELSE IF r.synced /\ InOrder(r, m)
           THEN /\ replica' = [replica EXCEPT ![g] =
                                 [Apply(Seen(r, "event"), m) EXCEPT !.applied = m.seq,
                                                                   !.got = m.seq]]
                /\ link' = [link EXCEPT ![g].inbox = Tail(@)]
           ELSE IF r.synced /\ m.seq <= r.applied
           THEN /\ replica' = [replica EXCEPT ![g] = [Seen(r, "event") EXCEPT !.got = m.seq]]
                /\ link' = [link EXCEPT ![g].inbox = Tail(@)]
           ELSE /\ replica' = [replica EXCEPT ![g] =
                                 [Seen(r, "event") EXCEPT !.got = m.seq, !.synced = FALSE]]
                /\ link' = [link EXCEPT ![g].inbox = Tail(@),
                                        ![g].resync = r.synced \/ link[g].resync]
    /\ UNCHANGED <<session, workerCalls, clientVars, termVars, driverVars>>

\* The Host answers a resynchronization request with a fresh snapshot.
Resync(g) ==
    /\ Open
    /\ link[g].phase = "admitted"
    /\ link[g].resync
    /\ link' = [link EXCEPT ![g].resync = FALSE, ![g].inbox = Append(@, Snapshot)]
    /\ UNCHANGED <<session, replica, workerCalls, clientVars, termVars, driverVars>>

\* A transient disconnect of a Guest that follows the run: the event in
\* flight to it is lost.
TransientDisconnect(g) ==
    /\ link[g].phase = "admitted"
    /\ replica[g].synced
    /\ link[g].inbox # << >>
    /\ link' = [link EXCEPT ![g].inbox = Tail(@)]
    /\ UNCHANGED <<session, replica, workerCalls, clientVars, termVars, driverVars>>

\* A Guest leaves; the Session waits for peers again when it was the last.
GuestDisconnect(g) ==
    /\ Open
    /\ link[g].phase = "admitted"
    /\ link' = [link EXCEPT ![g].phase = "closed", ![g].inbox = << >>, ![g].resync = FALSE]
    /\ session' = [session EXCEPT !.peers = @ \ {g},
                                  !.state = IF Members = {g} THEN "AwaitingPeers" ELSE "Live"]
    /\ UNCHANGED <<replica, workerCalls, clientVars, termVars, driverVars>>

\* The socket of a remote peer after the Session is destroyed.
Closed(l) ==
    IF l.phase \in {"none", "closed"} THEN l
    ELSE [l EXCEPT !.phase = "closed", !.inbox = << >>, !.resync = FALSE]

\* The host disconnects: the Session is destroyed.
HostDisconnect_leavesGuests ==
    /\ session.state # "Closed"
    /\ session' = [session EXCEPT !.state = "Closed", !.peers = {}]
    /\ UNCHANGED <<link, replica, workerCalls, clientVars, termVars, driverVars>>

HostDisconnect ==
    /\ session.state # "Closed"
    /\ session' = [session EXCEPT !.state = "Closed", !.peers = {}]
    /\ link' = [g \in Guests |-> Closed(link[g])]
    /\ UNCHANGED <<replica, workerCalls, clientVars, termVars, driverVars>>

CollabNext ==
    \/ Share
    \/ \E g \in Guests, cert \in Certificates, pin \in Pins : Connect(g, cert, pin)
    \/ \E g \in Guests : VerifyCertificate(g)
    \/ \E g \in Guests : SendPin(g)
    \/ \E g \in Guests : Authenticate(g)
    \/ \E i \in SharedSteps : Navigate(i)
    \/ \E p \in {Host} \cup Guests : ExecutionRequest(p)
    \/ OutputChunk
    \/ \E status \in {"Success", "Failed"} : ExecutionResult(status)
    \/ \E g \in Guests : Receive(g)
    \/ \E g \in Guests : Resync(g)
    \/ \E g \in Guests : TransientDisconnect(g)
    \/ \E g \in Guests : GuestDisconnect(g)
    \/ HostDisconnect

CollabSpec == Init /\ [][CollabNext]_vars

TypeOK ==
    /\ process \in {"undefined", "set"}
    /\ worker \in {"none", "running", "failed", "exited"}
    /\ rpcId \in Nat
    /\ DOMAIN pendingRequests \subseteq Nat
    /\ \A k \in DOMAIN timers : timers[k] \in 0 .. REQUEST_TIMEOUT_MS
    /\ Len(calls) <= MaxCalls
    /\ Len(stdout) <= MaxQueue
    /\ Len(children) <= MaxChildren
    /\ activeProcess \in {NoProcess} \cup DOMAIN children
    /\ termOut.data \in {Nothing} \cup InChunks \cup OutChunks
    /\ written.to \in {NoProcess} \cup DOMAIN children
    /\ written.bytes \in {Nothing} \cup InChunks \cup {<<LF>>}
    /\ client \in {NoClient} \cup DOMAIN clients
    /\ commands \in 0 .. MaxCommands
    /\ Len(tasks) <= commands
    /\ \A t \in DOMAIN tasks :
          /\ tasks[t].pc \in {"start", "getSteps", "executeStep"}
          /\ tasks[t].on \in DOMAIN clients
    /\ Len(finished.shown) <= 1
    /\ \A i \in DOMAIN steps : steps[i].status \in {"Pending", "Success", "Failed"}
    /\ view.of \in {NoItem} \cup (0 .. 1)
    /\ shownFrom \in {NoClient} \cup DOMAIN clients
    /\ session.state \in {"Created", "AwaitingPeers", "Live", "Closed"}
    /\ session.seq \in 0 .. MaxSeq
    /\ session.peers \subseteq {Host} \cup Guests
    /\ workerCalls \in 0 .. MaxSeq
    /\ \A g \in Guests :
          /\ link[g].phase \in {"none", "tls", "verified", "pinSent", "admitted", "closed"}
          /\ Len(link[g].inbox) <= MaxSeq + 2
          /\ replica[g].applied \in NoSeq .. MaxSeq

\* ======================================================= properties
CallIds == 1 .. Len(calls)

\* the call is registered in the table under its own id
InTable(k) ==
    calls[k].id \in DOMAIN pendingRequests /\ pendingRequests[calls[k].id] = k

\* this step is the reader handing `line` to the line handler
Reads(line) ==
    stdout # << >> /\ Head(stdout) = line /\ stdout' = Tail(stdout)

\* this step is the timer of call k firing
TimerFires(k) ==
    /\ k \in DOMAIN timers
    /\ timers[k] = 0
    /\ k \notin DOMAIN timers'
    /\ stdout' = stdout

\* C1: a call that was settled by a worker line was settled by a line carrying
\* the call's own id, and its outcome is that line's error (rejected) or
\* result (resolved); no line with another call's id ever settles it.
C1_SettledByOwnId ==
    \A k \in CallIds :
        calls[k].by # NoLine =>
            /\ calls[k].by.id = calls[k].id
            /\ IF TruthyStr(calls[k].by.error)
               THEN calls[k].state = "rejected" /\ calls[k].value = calls[k].by.error
               ELSE calls[k].state = "resolved" /\ calls[k].value = calls[k].by.result

\* two calls were outstanding together and the later one was answered first
C1_Witness ==
    /\ Len(calls) = 2
    /\ calls[1].state = "pending" /\ InTable(1)
    /\ calls[2].state = "resolved" /\ calls[2].by = ResultLine(calls[2].id)

\* C2: when the timer of a call still waiting for its response fires, the call
\* is rejected with "Request timed out"; a line carrying the id of a call that
\* timed out changes no call's outcome and does not touch the table.
C2_TimeoutThenLateResponseDiscarded ==
    [][ /\ \A k \in CallIds :
             (TimerFires(k) /\ calls[k].state = "pending") =>
                 /\ calls'[k].state = "rejected"
                 /\ calls'[k].value = "Request timed out"
        /\ \A line \in ResponseLines :
             (/\ Reads(line)
              /\ \E k \in CallIds : /\ calls[k].id = line.id
                                    /\ calls[k].value = "Request timed out") =>
                 /\ calls' = calls
                 /\ pendingRequests' = pendingRequests
      ]_vars

\* a call has timed out and a response with its id is the next line read
C2_Witness ==
    \E k \in CallIds :
        /\ calls[k].state = "rejected"
        /\ calls[k].value = "Request timed out"
        /\ stdout # << >>
        /\ Head(stdout) = ResultLine(calls[k].id)

\* C3: resolve/reject is invoked at most once on every call, whatever the
\* order of responses, duplicates, timer expiry, worker exit and dispose().
C3_SettledAtMostOnce ==
    \A k \in CallIds : calls[k].settles <= 1

\* a call was answered, the client was disposed, and a second response with
\* the same id is still buffered in the reader
C3_Witness ==
    \E k \in CallIds :
        /\ calls[k].by # NoLine
        /\ process = "undefined"
        /\ stdout # << >>
        /\ Head(stdout) \in ResponseLines
        /\ Head(stdout).id = calls[k].id

\* C4: dispose() on a client with pending calls rejects every one of them as
\* part of the disposal, leaving none pending.
C4_DisposeRejectsPending ==
    [][ (process = "set" /\ process' = "undefined") =>
            \A k \in CallIds :
                calls[k].state = "pending" => calls'[k].state = "rejected"
      ]_vars

\* C5: when the worker exits with an exit code while calls are pending, every
\* pending call is rejected at that point instead of being left to its timer.
C5_ExitRejectsPending ==
    [][ (worker = "running" /\ worker' = "exited" /\ exitCode' # Null) =>
            \A k \in CallIds :
                calls[k].state = "pending" => calls'[k].state = "rejected"
      ]_vars

\* C6: every sendRequest invocation eventually settles.
C6_EveryCallSettles ==
    \A k \in 1 .. MaxCalls :
        (Len(calls) >= k) ~> (Len(calls) >= k /\ calls[k].state # "pending")

\* a call made to a worker that never answered it and is gone has timed out
C6_Witness ==
    \E k \in CallIds :
        /\ calls[k].value = "Request timed out"
        /\ worker # "running"
        /\ calls[k].id \notin stdin \/ process = "undefined"

\* C7: the ids allocated by successive calls are strictly increasing and all
\* below the next id to allocate, and each id in the table belongs to exactly
\* one call awaiting its response.
C7_IdsIncreaseNoSharing ==
    /\ \A j, k \in CallIds :
           (j < k /\ calls[j].id # NoId /\ calls[k].id # NoId) => calls[j].id < calls[k].id
    /\ \A k \in CallIds : calls[k].id < rpcId
    /\ \A id \in DOMAIN pendingRequests :
           Cardinality({k \in CallIds : calls[k].state = "pending" /\ calls[k].id = id}) = 1
    /\ \A k \in CallIds : (calls[k].state = "pending") => InTable(k)

\* two calls are outstanding at once, each registered under its own id
C7_Witness ==
    /\ Len(calls) >= 2
    /\ \E j, k \in CallIds :
           /\ j < k
           /\ calls[j].state = "pending" /\ calls[k].state = "pending"
           /\ InTable(j) /\ InTable(k)

\* the message shapes of the worker control channel: a response has an id and
\* exactly one of result and error, a notification has no id, the method
\* "log" and a string output
WellFormed(line) ==
    /\ line.kind = "obj"
    /\ \/ /\ line.id # NoId /\ line.method = Undefined /\ line.output = Undefined
          /\ (line.result # Undefined) # (line.error # Undefined)
       \/ /\ line.id = NoId /\ line.method = "log" /\ line.output # Undefined
          /\ line.result = Undefined /\ line.error = Undefined

\* C8: a line that is not valid JSON or has not the shape of a message is
\* discarded: the table and every call's outcome are unchanged by it.
C8_MalformedLineDiscarded ==
    [][ \A line \in Lines :
            (Reads(line) /\ ~WellFormed(line)) =>
                /\ pendingRequests' = pendingRequests
                /\ calls' = calls
      ]_vars

\* C9: reading a line whose id is not in the table changes neither the table,
\* the id counter, any call, any timer nor what was logged.
C9_UnknownIdIsNoOp ==
    [][ \A line \in ResponseLines :
            (Reads(line) /\ line.id \notin DOMAIN pendingRequests) =>
                /\ pendingRequests' = pendingRequests
                /\ rpcId' = rpcId
                /\ calls' = calls
                /\ timers' = timers
                /\ delivered' = delivered
      ]_vars

\* the next line read answers a call that was already answered, while another
\* call is still waiting
C9_Witness ==
    /\ stdout # << >>
    /\ Head(stdout) \in ResponseLines
    /\ \E k \in CallIds : calls[k].state = "resolved" /\ calls[k].id = Head(stdout).id
    /\ \E k \in CallIds : calls[k].state = "pending" /\ InTable(k)

\* C10: a log notification read while calls are pending is delivered to the
\* log subscribers and leaves every pending call, its table entry and its
\* timer as they were.
C10_LogDeliveredPendingUntouched ==
    [][ \A line \in LogLines :
            (Reads(line) /\ \E k \in CallIds : calls[k].state = "pending") =>
                /\ delivered' = Append(delivered, line.output)
                /\ pendingRequests' = pendingRequests
                /\ timers' = timers
                /\ calls' = calls
      ]_vars

\* C11: every log notification the worker wrote is delivered to the
\* subscribers when it is read, after those read before it, and nothing else
\* is ever delivered: none is dropped, duplicated or reordered.
C11_NotificationsDeliveredInOrder ==
    [][ /\ \A line \in LogLines :
             Reads(line) => delivered' = Append(delivered, line.output)
        /\ (\A line \in LogLines : ~Reads(line)) => delivered' = delivered
      ]_vars

\* C12: once dispose() has returned on a started client, no log notification
\* of that client is delivered any more.
C12_NoDeliveryAfterDispose ==
    [][ (process = "undefined" /\ startPromise # "none") => delivered' = delivered ]_vars

\* C13: dispose() can always be called, and on a client whose process
\* reference is already cleared (never started, or disposed) it changes
\* nothing: a second dispose() leaves the state the first one produced.
C13_DisposeIdempotent ==
    /\ ENABLED Dispose
    /\ process = "undefined" => ~ENABLED (Dispose /\ vars' # vars)

\* a started client was disposed while a call was pending and a line was
\* still buffered
C13_Witness ==
    /\ process = "undefined"
    /\ worker = "exited"
    /\ stdout # << >>
    /\ \E k \in CallIds : calls[k].state = "pending" /\ InTable(k)

\* C14: start() reports success only if the worker is still running when the
\* grace timer fires.
C14_StartSucceedsOnlyIfRunning ==
    [][ (startPromise = "pending" /\ startPromise' = "resolved") => worker = "running" ]_vars

\* -------------------------------------------------------------- C17 .. C19
\* C17: an interrupt byte is never written to the stdin of a process,
\* whether it arrives alone or inside a larger input chunk.
C17_InterruptNeverWritten == ETX \notin Range(written.bytes)

\* The step is handleInput run on a chunk other than the interrupt while a
\* process is active and not killed.
ForwardsInput ==
    /\ Forwarding
    /\ termOut'.by = "handleInput"
    /\ termOut'.data # <<ETX>>

\* C18 as stated: every chunk other than the interrupt is written to the
\* stdin of the active process exactly as it arrived.
C18_WrittenByteForByte ==
    [][ ForwardsInput => written' = [to |-> activeProcess, bytes |-> termOut'.data] ]_vars

\* C18: every chunk other than a lone interrupt and a lone carriage return is
\* written to the stdin of the active process exactly as it arrived, an
\* interrupt inside a larger chunk included; a lone carriage return is
\* written as one line feed.
C18_WrittenByteForByteButEnter ==
    [][ ForwardsInput =>
            /\ written'.to = activeProcess
            /\ written'.bytes = (IF termOut'.data = <<CR>> THEN <<LF>>
                                 ELSE termOut'.data) ]_vars

C18_Witness ==
    /\ termOut = [by |-> "handleInput", data |-> <<"a", CR>>, fired |-> <<"a", CR>>]
    /\ written = [to |-> activeProcess, bytes |-> <<"a", CR>>]

\* out is data with every line feed turned into carriage return, line feed
\* and nothing else inserted, removed or altered.
RECURSIVE OnlyLineEndings(_, _)
OnlyLineEndings(data, out) ==
    IF data = << >> THEN out = << >>
    ELSE IF Head(data) = LF
         THEN /\ Len(out) >= 2
              /\ out[1] = CR
              /\ out[2] = LF
              /\ OnlyLineEndings(Tail(data), SubSeq(out, 3, Len(out)))
         ELSE /\ out # << >>
              /\ Head(out) = Head(data)
              /\ OnlyLineEndings(Tail(data), Tail(out))

Shows(L, items) ==
    /\ Len(items) = Len(L)
    /\ \A i \in DOMAIN L :
          /\ items[i].index = i - 1
          /\ items[i].step.title = L[i].title
          /\ items[i].description = L[i].status
          /\ items[i].label = <<i, ". ", L[i].title>>

C16_TreeRefreshedAfterExecute ==
    [][ \A t \in DOMAIN tasks :
            (/\ tasks[t].cmd = "executeStep"
             /\ ExecuteSettles(t, "error") \/ GetStepsSettles(t, "result"))
                => steps' = clients'[tasks[t].on].wsteps ]_vars

\* C20: a command run that failed showed exactly one error message, and the
\* message carries the text of the failure.
C20_OneMessageWithFailureText ==
    finished.failure # NoFailure =>
        /\ Len(finished.shown) = 1
        /\ finished.shown[1][2] = finished.failure.text

\* -------------------------------------------------------------- C28 .. C30
\* Every call other than k keeps its outcome, its table entry and its timer.
OthersUntouched(k) ==
    \A j \in CallIds \ {k} :
        /\ calls'[j] = calls[j]
        /\ InTable(j) => /\ calls[j].id \in DOMAIN pendingRequests'
                         /\ pendingRequests'[calls[j].id] = j
        /\ j \in DOMAIN timers => j \in DOMAIN timers' /\ timers'[j] = timers[j]

\* C28: when the timer of a waiting call fires, only that call's entry
\* leaves the table; every other call keeps its entry, its timer and its
\* outcome, and the client can go on sending (process and id counter are
\* untouched).
C28_TimeoutRemovesOnlyItsEntry ==
    [][ \A k \in CallIds :
            (TimerFires(k) /\ calls[k].state = "pending") =>
                /\ pendingRequests' = MapDelete(pendingRequests, calls[k].id)
                /\ OthersUntouched(k)
                /\ rpcId' = rpcId
                /\ process' = process ]_vars

\* the first call timed out and the second was answered by its response
C28_Witness ==
    /\ Len(calls) = 2
    /\ calls[1].state = "rejected" /\ calls[1].value = "Request timed out"
    /\ calls[2].state = "resolved" /\ calls[2].by = ResultLine(calls[2].id)
    /\ calls[2].id > calls[1].id

\* C29: a response carrying the id of a waiting call settles exactly that
\* call, rejected with the error's message when it has an error and resolved
\* with the result otherwise; the call's timer is cancelled and its entry
\* removed, and no other call is touched.
C29_ResponseSettlesItsCall ==
    [][ (stdout # << >> /\ Head(stdout).kind = "obj" /\ Reads(Head(stdout))) =>
            LET line == Head(stdout)
            IN  \A k \in CallIds :
                    (calls[k].id = line.id /\ InTable(k)) =>
                        /\ calls'[k].state =
                               IF line.error # Undefined THEN "rejected" ELSE "resolved"
                        /\ calls'[k].value =
                               IF line.error # Undefined THEN line.error ELSE line.result
                        /\ calls'[k].settles = 1
                        /\ k \notin DOMAIN timers'
                        /\ line.id \notin DOMAIN pendingRequests'
                        /\ OthersUntouched(k) ]_vars

\* the first of two waiting calls was rejected by an error response and the
\* second is still waiting with its timer
C29_Witness ==
    /\ Len(calls) = 2
    /\ calls[1].state = "rejected" /\ calls[1].by = ErrorLine(calls[1].id)
    /\ calls[2].state = "pending" /\ InTable(2) /\ 2 \in DOMAIN timers
    /\ 1 \notin DOMAIN timers

\* C30: the step list of the provider changes only when a run applies the
\* result of a get_steps response, and then it is that worker's list; no
\* getChildren or getTreeItem call and no item construction changes it.
C30_StepsOnlyFromGetSteps ==
    [][ steps' # steps =>
            \E t \in DOMAIN tasks :
                /\ GetStepsSettles(t, "result")
                /\ steps' = clients[tasks[t].on].wsteps ]_vars

\* The root was rendered from a list applied after a step ran, and the step
\* was then expanded: the list is still the worker's.
C30_Witness ==
    /\ client # NoClient
    /\ steps # << >>
    /\ steps = clients[client].wsteps
    /\ steps[1].status = "Success"
    /\ view.of = 0
    /\ view.items = GetChildrenOf(GetChildren[1])
    /\ view.items # << >>

\* ------------------------------------------------------------ C21 .. C27
\* the certificate the peer was presented is not the one its token pins
Mismatch(g) == link[g].cert # Null /\ Digest(link[g].cert) # JoinToken.digest

\* C21: a peer whose digest of the presented certificate differs from the
\* digest in its join token never receives session state: no snapshot and no
\* BroadcastEvent reaches it and it is never in the Peer set, also when the
\* PIN it holds is the Host's.
C21_MismatchNeverReceivesState ==
    \A g \in Guests :
        Mismatch(g) =>
            /\ replica[g] = NoReplica
            /\ link[g].inbox = << >>
            /\ g \notin session.peers

\* A peer holding the right PIN was presented another certificate and its
\* connection was aborted, while another Guest of the Session got its snapshot.
C21_Witness ==
    \E g \in Guests, h \in Guests :
        /\ Mismatch(g)
        /\ link[g].pin = HostPin
        /\ link[g].phase = "closed"
        /\ link[g].error = "CertificateMismatch"
        /\ replica[h].first = "snapshot"
        /\ session.seq > 0

\* C22: an execution request of a Guest is answered with PermissionDenied and
\* changes nothing else: no call reaches the worker, the Session and every
\* other peer's connection stay as they are; a call reaches the worker only
\* by a request of the Host.
C22_GuestExecutionDenied ==
    [][ /\ \A g \in Guests :
              ExecutionRequest(g) =>
                  /\ link'[g].reply = "PermissionDenied"
                  /\ workerCalls' = workerCalls
                  /\ session' = session
                  /\ replica' = replica
                  /\ \A h \in Guests \ {g} : link'[h] = link[h]
        /\ workerCalls' # workerCalls => ExecutionRequest(Host) ]_vars

\* A Guest was denied; it and another Guest are still in the Live Session and
\* the other one has applied the events of the Host's own execution.
C22_Witness ==
    \E g \in Guests, h \in Guests :
        /\ g # h
        /\ link[g].reply = "PermissionDenied"
        /\ link[g].phase = "admitted"
        /\ link[h].phase = "admitted"
        /\ session.state = "Live"
        /\ workerCalls = 1
        /\ replica[h].applied = session.seq
        /\ replica[h].got > 0

\* C23: the first message a Guest receives is a snapshot, never an event: on
\* admission the snapshot of the Session as it is then (step index, all step
\* statuses, sequence number) is queued ahead of every event, and a Guest that
\* has applied everything up to the Session's sequence number holds the
\* Host's step index and statuses.
C23_SnapshotBeforeEvents ==
    /\ [](\A g \in Guests :
            /\ replica[g].first # "event"
            /\ (replica[g].synced /\ replica[g].applied = session.seq /\ session.state # "Closed") =>
                   /\ replica[g].index = session.index
                   /\ replica[g].statuses = session.statuses)
    /\ [][ \A g \in Guests :
              (link[g].phase # "admitted" /\ link'[g].phase = "admitted") =>
                  link'[g].inbox = <<Snapshot'>> ]_vars

\* A Guest admitted between two emissions has its snapshot queued ahead of the
\* later event, while an earlier Guest has applied both events.
C23_Witness ==
    \E g \in Guests, h \in Guests :
        /\ replica[g].first = "snapshot"
        /\ replica[g].applied = 2
        /\ replica[g].got = 2
        /\ replica[h].first = "none"
        /\ Len(link[h].inbox) = 2
        /\ link[h].inbox[1].kind = "snapshot"
        /\ link[h].inbox[1].seq = 1
        /\ link[h].inbox[2].seq = 2

\* the next message on the connection of g is an event
EventNext(g) == link[g].inbox # << >> /\ Head(link[g].inbox).kind # "snapshot"

\* C24: the sequence number a Guest has applied moves only to that of a
\* snapshot it receives or, by an event, to the next one; an event beyond the
\* next one is not applied and not skipped: the Guest keeps what it had
\* applied, stops applying and requests a snapshot, and whenever a Guest is
\* not applying, a snapshot is requested or on its way.
C24_AppliedInSequence ==
    /\ [][ \A g \in Guests :
              /\ replica'[g].applied # replica[g].applied =>
                     /\ link[g].inbox # << >>
                     /\ replica'[g].applied = Head(link[g].inbox).seq
                     /\ EventNext(g) => Head(link[g].inbox).seq = replica[g].applied + 1
              /\ ( /\ Receive(g)
                   /\ EventNext(g)
                   /\ replica[g].synced
                   /\ Head(link[g].inbox).seq > replica[g].applied + 1 ) =>
                     /\ link'[g].resync
                     /\ ~replica'[g].synced
                     /\ replica'[g].applied = replica[g].applied
                     /\ replica'[g].index = replica[g].index
                     /\ replica'[g].statuses = replica[g].statuses ]_vars
    /\ [](\A g \in Guests :
            (link[g].phase = "admitted" /\ ~replica[g].synced) =>
                \/ link[g].resync
                \/ \E i \in DOMAIN link[g].inbox : link[g].inbox[i].kind = "snapshot")

\* A Guest that had applied the snapshot at 0 lost event 1 and received event
\* 2: it has applied nothing further and its request for a snapshot is out.
C24_Witness ==
    \E g \in Guests :
        /\ link[g].phase = "admitted"
        /\ replica[g].applied = 0
        /\ replica[g].got = 2
        /\ ~replica[g].synced
        /\ link[g].resync

\* the sequence numbers of the events in flight to g, in queue order
EventSeqs(g) ==
    LET events == SelectSeq(link[g].inbox, LAMBDA m : m.kind # "snapshot")
    IN  [i \in DOMAIN events |-> events[i].seq]

Increasing(seqs) == \A i \in DOMAIN seqs, j \in DOMAIN seqs : i < j => seqs[i] < seqs[j]

\* C25: every Guest gets the events in emission order: the events in flight
\* to a Guest are in increasing sequence order, all later than the last it
\* received, and the last it received only grows.  The Session's sequence
\* counter changes only by one emission, which adds one to it and queues the
\* event with the new number last on the connection of every Guest in the
\* Peer set.
C25_SameOrderEverywhere ==
    /\ [](\A g \in Guests :
            /\ Increasing(EventSeqs(g))
            /\ \A i \in DOMAIN EventSeqs(g) :
                  replica[g].got < EventSeqs(g)[i] /\ EventSeqs(g)[i] <= session.seq)
    /\ [][ /\ \A g \in Guests : replica'[g].got >= replica[g].got
           /\ session'.seq # session.seq =>
                  /\ session'.seq = session.seq + 1
                  /\ session'.peers = session.peers
                  /\ \A g \in Members :
                        /\ Len(link'[g].inbox) = Len(link[g].inbox) + 1
                        /\ SubSeq(link'[g].inbox, 1, Len(link[g].inbox)) = link[g].inbox
                        /\ link'[g].inbox[Len(link'[g].inbox)].kind # "snapshot"
                        /\ link'[g].inbox[Len(link'[g].inbox)].seq = session'.seq ]_vars

\* Two Guests of one Session have each received events 1 and 2, one of them
\* while the other still had both in flight.
C25_Witness ==
    \E g \in Guests, h \in Guests :
        /\ g # h
        /\ replica[g].got = 2
        /\ replica[g].applied = 2
        /\ replica[h].first = "snapshot"
        /\ replica[h].applied = 0
        /\ EventSeqs(h) = <<1, 2>>

\* The moves of the Session's state machine; the host can disconnect in any
\* state.
Moves ==
    {<<"Created", "AwaitingPeers">>, <<"AwaitingPeers", "Live">>, <<"Live", "AwaitingPeers">>,
     <<"Created", "Closed">>, <<"AwaitingPeers", "Closed">>, <<"Live", "Closed">>}

\* C26: a Session that is not Closed has exactly one Peer with role Host; the
\* Session's state moves only along Created -> AwaitingPeers <-> Live and, when
\* the host disconnects, to Closed; in Closed no remote peer has an open
\* connection or a message in flight, and nothing of the Session, the
\* connections or the Guests' state changes any more.
C26_OneHostClosedTerminal ==
    /\ [](session.state # "Closed" =>
            Cardinality({p \in session.peers : Role(p) = "Host"}) = 1)
    /\ [](session.state = "Closed" =>
            \A g \in Guests : link[g].phase \in {"none", "closed"} /\ link[g].inbox = << >>)
    /\ [][ /\ session'.state # session.state => <<session.state, session'.state>> \in Moves
           /\ HostDisconnect => session'.state = "Closed"
           /\ session.state = "Closed" => UNCHANGED collabVars ]_vars

\* The host disconnected from a Live Session with two Guests that had their
\* snapshots: both connections are closed.
C26_Witness ==
    \E g \in Guests, h \in Guests :
        /\ g # h
        /\ session.state = "Closed"
        /\ session.seq > 0
        /\ replica[g].first = "snapshot"
        /\ replica[h].first = "snapshot"
        /\ link[g].phase = "closed"
        /\ link[h].phase = "closed"

\* the peer saw the Host's certificate and holds a PIN that is not the Host's
WrongPin(g) == link[g].cert = HostCertificate /\ link[g].pin # HostPin

\* C27: a peer that passed transport validation and sent a PIN that is not the
\* Host's is rejected with AuthenticationFailed and its socket is closed, the
\* Session staying as it was; such a peer is never in the Peer set and nothing
\* is ever queued for it or received by it.
C27_WrongPinRejected ==
    /\ [](\A g \in Guests :
            WrongPin(g) =>
                /\ g \notin session.peers
                /\ link[g].inbox = << >>
                /\ replica[g] = NoReplica)
    /\ [][ \A g \in Guests :
              (Authenticate(g) /\ WrongPin(g)) =>
                  /\ link'[g].phase = "closed"
                  /\ link'[g].error = "AuthenticationFailed"
                  /\ session' = session ]_vars

\* A peer with a wrong PIN was rejected by a Session that is Live with
\* another Guest.
C27_Witness ==
    \E g \in Guests, h \in Guests :
        /\ WrongPin(g)
        /\ link[g].phase = "closed"
        /\ link[g].error = "AuthenticationFailed"
        /\ session.state = "Live"
        /\ h \in session.peers
        /\ replica[h].first = "snapshot"

\* ------------------------------------------------------------ C31 .. C38
\* a call with this id passed the write of sendRequest and is not settled
Awaited(id) == \E k \in CallIds : calls[k].id = id /\ calls[k].state = "pending"

\* C31: an id is in the pending table exactly when a call with that id was
\* written and is not yet settled (a call is left unsettled only by a
\* sendRequest that got past its write: it has an id, and a worker that is
\* alive has received it); every id in the table is below the next id to
\* allocate and the call it stands for has its deadline timer armed.
C31_TableIsTheAwaitedCalls ==
    /\ \A id \in DOMAIN pendingRequests \cup {calls[k].id : k \in CallIds} :
           id \in DOMAIN pendingRequests <=> Awaited(id)
    /\ \A k \in CallIds : calls[k].state = "pending" => calls[k].id # NoId
    /\ worker = "running" => DOMAIN pendingRequests \subseteq stdin
    /\ \A id \in DOMAIN pendingRequests :
           /\ id < rpcId
           /\ pendingRequests[id] \in DOMAIN timers
           /\ calls[pendingRequests[id]].id = id

\* The first call was answered and left the table, the second is written to
\* the running worker and waits in the table with its timer.
C31_Witness ==
    /\ Len(calls) = 2
    /\ calls[1].state = "resolved"
    /\ calls[2].state = "pending"
    /\ DOMAIN pendingRequests = {calls[2].id}
    /\ calls[1].id \in stdin /\ calls[2].id \in stdin
    /\ worker = "running"
    /\ rpcId = calls[2].id + 1
    /\ timers[2] > 0

\* this step is a sendRequest call
Sends == Len(calls') = Len(calls) + 1

\* C32: a sendRequest on a client whose process is not set (never started, or
\* disposed) is rejected at once with "Process not started": it allocates no
\* id, writes nothing, arms no timer and leaves the table and the other
\* calls as they are.
C32_NotStartedRejectedAtOnce ==
    [][ (Sends /\ process = "undefined") =>
            /\ calls'[Len(calls')].state = "rejected"
            /\ calls'[Len(calls')].value = "Process not started"
            /\ calls'[Len(calls')].id = NoId
            /\ calls'[Len(calls')].settles = 1
            /\ SubSeq(calls', 1, Len(calls)) = calls
            /\ rpcId' = rpcId
            /\ stdin' = stdin
            /\ timers' = timers
            /\ pendingRequests' = pendingRequests ]_vars

\* A client was disposed with one call waiting; the call made afterwards was
\* refused and the waiting one is still registered under the only id taken.
C32_Witness ==
    /\ Len(calls) = 2
    /\ process = "undefined"
    /\ startPromise # "none"
    /\ calls[1].state = "pending" /\ calls[1].id = FIRST_RPC_ID
    /\ calls[2].state = "rejected" /\ calls[2].value = "Process not started"
    /\ calls[2].id = NoId
    /\ rpcId = FIRST_RPC_ID + 1
    /\ DOMAIN pendingRequests = {FIRST_RPC_ID}
    /\ DOMAIN timers = {1}

\* C33: the promise of start() keeps its first outcome: once rejected or
\* resolved it never changes, whatever handler runs later (the grace timer
\* after a spawn error, a process error after the grace timer), and it is
\* pending only while the grace timer has yet to fire.
C33_StartSettlesOnce ==
    /\ [][ (startPromise = "resolved" \/ startPromise = "rejected") =>
               startPromise' = startPromise ]_vars
    /\ [](startPromise = "pending" => graceTimer # Unarmed)

\* The spawn failed and its error rejected the promise; the grace timer then
\* fired on a process object with no exit code and the start is still rejected.
C33_Witness ==
    /\ startPromise = "rejected"
    /\ worker = "failed"
    /\ process = "set"
    /\ exitCode = Null
    /\ ~spawnError
    /\ graceTimer = Unarmed

\* dispose() ran while the promise of start() was not settled yet
DisposedInWindow == process = "undefined" /\ startPromise = "pending"

\* C34: a client disposed inside the grace window never reports a successful
\* start: its promise is not resolved by any step, and the grace timer, when
\* it fires, rejects it.
C34_DisposedStartRejects ==
    [][ DisposedInWindow =>
            /\ startPromise' # "resolved"
            /\ process' = "undefined"
            /\ (graceTimer = 0 /\ graceTimer' = Unarmed) => startPromise' = "rejected" ]_vars

\* The worker was running when dispose() killed it inside the grace window
\* (no exit code: it died by the signal); the timer fired and rejected.
C34_Witness ==
    /\ startPromise = "rejected"
    /\ process = "undefined"
    /\ worker = "exited"
    /\ exitCode = Null
    /\ graceTimer = Unarmed

\* the clients whose worker process is alive
Live == {c \in DOMAIN clients : clients[c].worker = "running"}

SendsExecute ==
    /\ Len(tasks') = Len(tasks) + 1
    /\ tasks'[Len(tasks')].cmd = "executeStep"

\* C36: the list in the tree is the list of the current client's worker: a
\* get_steps result is installed only from the client that is current, the
\* list shown never belongs to another client than the current one, and an
\* execute_step for an item of the tree goes to the client whose worker
\* produced the list.
C36_ListFromCurrentClient ==
    /\ [](steps # << >> => shownFrom = client)
    /\ [][ /\ steps' # steps => shownFrom' = client'
           /\ SendsExecute => tasks'[Len(tasks')].on = shownFrom ]_vars


\* C37: activeProcess is undefined or the most recently spawned command, and
\* that command has not closed; the close of an older command leaves
\* activeProcess as it is, the close of the current one makes it undefined.
Closes(c) == ~children[c].closed /\ children'[c].closed

C37_ActiveIsNewestOpen ==
    /\ [](activeProcess # NoProcess =>
              /\ activeProcess = Len(children)
              /\ ~children[activeProcess].closed)
    /\ [][ \A c \in DOMAIN children :
               Closes(c) =>
                   activeProcess' = IF c = activeProcess THEN NoProcess ELSE activeProcess ]_vars

\* The first command closed after the second was spawned, and the second is
\* still the active one.
C37_Witness ==
    /\ Len(children) = 2
    /\ children[1].closed
    /\ ~children[2].closed
    /\ activeProcess = 2
    /\ termOut.by = "close"

\* C38: a chunk given to handleInput while there is no active process, or
\* after the active process was killed, is dropped: nothing is written to any
\* stdin and nothing is echoed; and whatever is written goes to the active
\* process, which was not killed.
Dropping == activeProcess = NoProcess \/ children[activeProcess].killed

C38_DroppedWhenKilledOrIdle ==
    [][ /\ (termOut'.by = "handleInput" /\ Dropping) =>
               /\ termOut'.fired = Nothing
               /\ written'.to = NoProcess
               /\ written'.bytes = Nothing
        /\ (written'.to # NoProcess) =>
               /\ written'.to = activeProcess
               /\ ~children[written'.to].killed ]_vars

\* A chunk was dropped after the interrupt killed the active process, which
\* has not closed yet.
C38_Witness ==
    /\ activeProcess # NoProcess
    /\ children[activeProcess].killed
    /\ ~children[activeProcess].closed
    /\ termOut.by = "handleInput"
    /\ termOut.data # <<ETX>>
    /\ termOut.fired = Nothing
    /\ written.to = NoProcess

====
